---- MODULE Spec2Model ----
(***************************************************************************)
(* Macaroons (package macaroon of cmars/macaroon): construction            *)
(* (New, AddFirstPartyCaveat, AddThirdPartyCaveat, Bind), the document     *)
(* form (MarshalDoc, UnmarshalDoc) and verification (Verify, verify).      *)
(*                                                                         *)
(* Byte strings and Go strings are sequences of symbols.  A symbol is a    *)
(* record [t, k, d]: an atom (a named byte block, k = d = <<>>), or the    *)
(* output block of a cryptographic or encoding function applied to the     *)
(* byte strings k and d.  Concatenation of byte strings is \o, so that a   *)
(* hasher written to twice hashes the concatenation of the two writes.     *)
(* Two function outputs are equal only when the function and its inputs    *)
(* are equal: hashes are collision-free and ciphertexts authenticated.     *)
(***************************************************************************)
EXTENDS Naturals, Sequences, FiniteSets, TLC

\* ------------------------------------------------------------------------
\* Bounds of the model.
\* ------------------------------------------------------------------------
MaxOps == 5          \* operations that allocate or change a macaroon
MaxOpsInvalid == 3   \* the same, once text that is not valid UTF-8 is in use

Addrs == {1, 2, 3}                             \* addresses of *Macaroon
Checkers == {"acceptAll", "acceptA", "errB", "okErrB"}

Sym(t, k, d) == [t |-> t, k |-> k, d |-> d]
Atom(name) == <<Sym(name, <<>>, <<>>)>>
Empty == <<>>

\* a byte that is not valid UTF-8 in a Go string, and the rune U+FFFD
InvalidByte == Sym("0xFF", <<>>, <<>>)
Replacement == Sym("U+FFFD", <<>>, <<>>)

RootKeys == {Atom("K1"), Atom("K2")}          \* keys handed to Verify
MintKey == Atom("K1")                          \* the key the service mints with
Ids == {Atom("id"), Atom("id") \o <<InvalidByte>>}
Conds == {Atom("a"), Atom("b")}
TPConds == {Atom("c"), Atom("c") \o <<InvalidByte>>}
Secrets == {Atom("S")}
\* the n-th value newNonce() draws
RECURSIVE Tally(_)
Tally(n) == IF n = 0 THEN Empty ELSE <<Sym("1", Empty, Empty)>> \o Tally(n - 1)
Nonce(n) == <<Sym("nonce", Empty, Tally(n))>>
Loc == Atom("loc")
Loc2 == Atom("loc2")

\* ------------------------------------------------------------------------
\* Cryptographic primitives and encodings.
\* ------------------------------------------------------------------------

\* keyedHasher(key) written with data, then Sum(nil): HMAC-SHA256.
hmacSum(key, data) == <<Sym("hmac", key, data)>>

keyedHash(key, text) == hmacSum(key, text)

\* sha256.New(), Write..., Sum(nil)
sha256Sum(data) == <<Sym("sha256", Empty, data)>>

\* authenticated encryption of text under key
encrypt(key, text) == <<Sym("box", key, text)>>

\* decrypt opens only a box sealed under the same key
decrypt(key, ciphertext) ==
    IF Len(ciphertext) = 1 /\ ciphertext[1].t = "box" /\ ciphertext[1].k = key
    THEN [ok |-> TRUE, plain |-> ciphertext[1].d]
    ELSE [ok |-> FALSE, plain |-> Empty]

\* base64.StdEncoding
base64Encode(b) == <<Sym("b64", Empty, b)>>

base64Decode(s) ==
    IF Len(s) = 1 /\ s[1].t = "b64"
    THEN [ok |-> TRUE, bytes |-> s[1].d]
    ELSE [ok |-> FALSE, bytes |-> Empty]

\* json.Marshal of a Go string: the text is coerced to valid UTF-8, each
\* invalid byte replaced by U+FFFD
jsonString(str) ==
    [k \in 1..Len(str) |-> IF str[k] = InvalidByte THEN Replacement ELSE str[k]]

\* json.Unmarshal of a JSON string into a Go string: invalid UTF-8 in the
\* text is replaced in the same way
jsonUnquote(text) ==
    [k \in 1..Len(text) |-> IF text[k] = InvalidByte THEN Replacement ELSE text[k]]

\* json.Marshal(ThirdPartyCaveatId{RootKey, Caveat}): RootKey, a []byte, is
\* written in base64, Caveat as a JSON string
jsonThirdPartyCaveatId(rootKey, caveat) == <<Sym("tpid", rootKey, jsonString(caveat))>>

jsonUnmarshalThirdPartyCaveatId(plain) ==
    IF Len(plain) = 1 /\ plain[1].t = "tpid"
    THEN [ok |-> TRUE, RootKey |-> plain[1].k, Caveat |-> jsonUnquote(plain[1].d)]
    ELSE [ok |-> FALSE, RootKey |-> Empty, Caveat |-> Empty]

\* hex.EncodeToString writes lower-case digits; hex.DecodeString accepts
\* both cases and rejects any other character.  A hex text is the bytes
\* it denotes and the form of its digits.
hexEncode(b) == [bytes |-> b, form |-> "lower"]

hexDecode(h) ==
    IF h.form = "bad"
    THEN [ok |-> FALSE, bytes |-> Empty]
    ELSE [ok |-> TRUE, bytes |-> h.bytes]

\* ------------------------------------------------------------------------
\* Caveats and macaroons.
\* ------------------------------------------------------------------------
Caveat(loc, caveatId, verificationId) ==
    [location |-> loc, caveatId |-> caveatId, verificationId |-> verificationId]

\* mutant: no caveat counts as third-party
IsThirdPartyNever(cav) == FALSE

IsThirdParty(cav) == Len(cav.verificationId) > 0

Macaroon(loc, id, caveats, sig) ==
    [location |-> loc, id |-> id, caveats |-> caveats, sig |-> sig]

\* mutant: the root key is left out of the first hash
NewUnkeyed(rootKey, id, loc) == Macaroon(loc, id, <<>>, keyedHash(Empty, id))

New(rootKey, id, loc) == Macaroon(loc, id, <<>>, keyedHash(rootKey, id))

\* m1 := *m, then m1.caveats = make(...) and copy(...)
Clone(m) == Macaroon(m.location, m.id, m.caveats, m.sig)

\* mutant: the copy keeps the backing array of the caveats of the original
cloneArrayShared(src, fresh) == src

\* m1.caveats = make([]Caveat, len(m.caveats)): the backing array of the
\* copy's caveats is a new one
cloneArray(src, fresh) == fresh

Signature(m) == m.sig

\* mutant: the caveat id is written to the hasher before the verification
\* id
addCaveatIdFirst(m, caveatId, verificationId, loc) ==
    [m EXCEPT !.caveats = Append(m.caveats, Caveat(loc, caveatId, verificationId)),
              !.sig = hmacSum(m.sig, caveatId \o verificationId)]

\* mutant: the caveat is appended and the signature left as it was
addCaveatUnsigned(m, caveatId, verificationId, loc) ==
    [m EXCEPT !.caveats = Append(m.caveats, Caveat(loc, caveatId, verificationId))]

addCaveat(m, caveatId, verificationId, loc) ==
    [m EXCEPT !.caveats = Append(m.caveats, Caveat(loc, caveatId, verificationId)),
              !.sig = hmacSum(m.sig, verificationId \o caveatId)]

\* mutant: the hash of the two signatures is never taken
bindForRequestRoot(rootSig, dischargeSig) == rootSig

\* mutant: the hash of the two signatures is always taken
bindForRequestHashed(rootSig, dischargeSig) == sha256Sum(rootSig \o dischargeSig)

bindForRequest(rootSig, dischargeSig) ==
    IF rootSig = dischargeSig
    THEN rootSig
    ELSE sha256Sum(rootSig \o dischargeSig)

\* mutant: the two signatures are passed in the other order
BindSwapped(m, rootSig) == [m EXCEPT !.sig = bindForRequest(m.sig, rootSig)]

Bind(m, rootSig) == [m EXCEPT !.sig = bindForRequest(rootSig, m.sig)]

AddFirstPartyCaveat(m, caveatId) == addCaveat(m, caveatId, Empty, Empty)

\* the caveat id AddThirdPartyCaveat builds from the secret, the nonce and
\* the condition
thirdPartyCaveatId(thirdPartySecret, nonce, caveat) ==
    base64Encode(encrypt(thirdPartySecret, jsonThirdPartyCaveatId(nonce, caveat)))

AddThirdPartyCaveat(m, thirdPartySecret, nonce, caveat, loc) ==
    addCaveat(m, thirdPartyCaveatId(thirdPartySecret, nonce, caveat),
              encrypt(m.sig, nonce), loc)

DecryptThirdPartyCaveatId(secret, id) ==
    LET dec == base64Decode(id)
        pl == decrypt(secret, dec.bytes)
        c == jsonUnmarshalThirdPartyCaveatId(pl.plain)
    IN IF dec.ok /\ pl.ok /\ c.ok
       THEN c
       ELSE [ok |-> FALSE, RootKey |-> Empty, Caveat |-> Empty]

\* ------------------------------------------------------------------------
\* Verification.
\* ------------------------------------------------------------------------

\* The caller's check function, func(caveat string) (bool, error): each
\* checker maps a condition to the pair it returns.
check(chk, caveat) ==
    CASE chk = "acceptAll" -> [ok |-> TRUE, err |-> "nil"]
      [] chk = "acceptA" ->
            [ok |-> caveat = Atom("a"), err |-> "nil"]
      [] chk = "errB" ->
            IF caveat = Atom("b")
            THEN [ok |-> FALSE, err |-> "check"]
            ELSE [ok |-> caveat = Atom("a"), err |-> "nil"]
      [] OTHER ->
            IF caveat = Atom("b")
            THEN [ok |-> TRUE, err |-> "check"]
            ELSE [ok |-> caveat = Atom("a"), err |-> "nil"]

Result(ok, err, trace) == [ok |-> ok, err |-> err, returns |-> TRUE, trace |-> trace]

\* unbounded recursion: the call never returns
Diverges(trace) == [ok |-> FALSE, err |-> "overflow", returns |-> FALSE, trace |-> trace]

Event(ev, slot, idx, ok) == [ev |-> ev, slot |-> slot, idx |-> idx, ok |-> ok]

\* mutant: the check's verdict is ignored
firstPartyFailsNever(out) == FALSE

\* if !ok { return false, err } after check(cav.caveatId)
firstPartyFails(out) == ~out.ok

\* mutant: the verdict of the discharge's verification is ignored
dischargeFailsNever(r) == FALSE

\* if !ok { return false, err } after dm.verify(...)
dischargeFails(r) == ~r.ok

\* mutant: the final comparison is left out
signatureMatchesAlways(m, rootSig, caveatSig) == TRUE

\* boundSig := bindForRequest(rootSig, caveatSig); hmac.Equal(boundSig, m.sig)
signatureMatches(m, rootSig, caveatSig) ==
    bindForRequest(rootSig, caveatSig) = m.sig

\* mutant: every macaroon is compared against its own signature
effectiveRootSigOwn(m, rootSig) == m.sig

\* if len(rootSig) == 0 { rootSig = m.sig }
effectiveRootSig(m, rootSig) == IF Len(rootSig) = 0 THEN m.sig ELSE rootSig

\* mutant: the chain starts from the stored signature, not from the key
initialCaveatSigStored(m, rootKey) == m.sig

\* caveatSig := keyedHash(rootKey, m.id)
initialCaveatSig(m, rootKey) == keyedHash(rootKey, m.id)

\* the loop's chaining step: keyedHasher(caveatSig), Write(verificationId),
\* Write(caveatId), Sum
verifyChain(caveatSig, cav) == hmacSum(caveatSig, cav.verificationId \o cav.caveatId)

\* mutant: the running signature is kept in the bytes of the stored
\* signature of the macaroon being verified
chainBufferStored(s) == s

\* caveatSig := keyedHash(rootKey, m.id): the running signature is a slice
\* of its own (0: the bytes of no macaroon), which
\* caveatSig = sig.Sum(caveatSig[:0]) then overwrites for each caveat
chainBuffer(s) == 0

\* the trace after Sum has written val over the running signature of the
\* call on s: a write into the bytes of a macaroon is recorded
Written(trace, s, i, val) ==
    IF chainBuffer(s) = 0
    THEN trace
    ELSE Append(trace, [ev |-> "write", slot |-> chainBuffer(s), idx |-> i,
                        ok |-> TRUE, val |-> val])

RECURSIVE verify(_, _, _, _, _, _, _, _)
RECURSIVE verifyCaveats(_, _, _, _, _, _, _, _, _)

\* the body of the loop of verify from caveat i on, and the final
\* comparison.  s is the address of the receiver, heap the macaroons by
\* address, stack the verify calls in progress; trace records, in order,
\* the calls entered, the decryptions, the lookups in discharges, the
\* outcomes of the discharges' verifications and the calls of check.
verifyCaveats(s, i, caveatSig, rootSig, chk, discharges, heap, stack, trace) ==
    LET m == heap[s] IN
    IF i > Len(m.caveats)
    THEN IF signatureMatches(m, rootSig, caveatSig)
         THEN Result(TRUE, "nil", trace)
         ELSE Result(FALSE, "mismatch", trace)
    ELSE LET cav == m.caveats[i]
             next == verifyChain(caveatSig, cav)
         IN IF IsThirdParty(cav)
            THEN LET cavKey == decrypt(caveatSig, cav.verificationId)
                     tr == Append(trace, Event("decrypt", s, i, cavKey.ok))
                 IN
                 IF ~cavKey.ok
                 THEN Result(FALSE, "decrypt", tr)
                 ELSE IF cav.caveatId \notin DOMAIN discharges
                 THEN Result(FALSE, "nodischarge",
                             Append(tr, Event("lookup", s, i, FALSE)))
                 ELSE LET r == verify(discharges[cav.caveatId], rootSig, cavKey.plain,
                                      chk, discharges, heap, stack,
                                      Append(tr, Event("lookup", s, i, TRUE)))
                      IN IF ~r.returns
                         THEN r
                         ELSE IF dischargeFails(r)
                         THEN Result(FALSE, r.err,
                                     Append(r.trace, Event("discharge", s, i, r.ok)))
                         ELSE verifyCaveats(s, i + 1, next, rootSig, chk, discharges,
                                  heap, stack,
                                  Written(Append(r.trace, Event("discharge", s, i, r.ok)),
                                          s, i, next))
            ELSE LET out == check(chk, cav.caveatId)
                     tr == Append(trace, Event("check", s, i, out.ok))
                 IN IF firstPartyFails(out)
                    THEN Result(FALSE, out.err, tr)
                    ELSE verifyCaveats(s, i + 1, next, rootSig, chk, discharges,
                                       heap, stack, Written(tr, s, i, next))

verify(s, rootSig, rootKey, chk, discharges, heap, stack, trace) ==
    LET m == heap[s]
        rs == effectiveRootSig(m, rootSig)
        frame == <<s, rs, rootKey>>
    IN IF frame \in stack
       THEN Diverges(trace)
       ELSE verifyCaveats(s, 1, initialCaveatSig(m, rootKey), rs, chk, discharges,
                          heap, stack \cup {frame}, Append(trace, Event("enter", s, 0, TRUE)))

Verify(s, rootKey, chk, discharges, heap) ==
    verify(s, heap[s].sig, rootKey, chk, discharges, heap, {}, <<>>)

\* ------------------------------------------------------------------------
\* The document form.
\* ------------------------------------------------------------------------
\* Caveat.MarshalDoc and the json.Marshal of it in Caveat.MarshalJSON
CaveatMarshalDoc(cav) ==
    [Location |-> jsonString(cav.location), CID |-> jsonString(cav.caveatId),
     VID |-> hexEncode(cav.verificationId)]

\* the json.Unmarshal of Caveat.UnmarshalJSON and Caveat.UnmarshalDoc
CaveatUnmarshalDoc(doc) ==
    LET vid == hexDecode(doc.VID)
    IN [ok |-> vid.ok,
        cav |-> Caveat(jsonUnquote(doc.Location), jsonUnquote(doc.CID), vid.bytes)]

\* the JSON text of MarshalDoc(m): each element of Caveats goes through
\* Caveat.MarshalJSON
MarshalJSON(m) ==
    [Location |-> jsonString(m.location), Identifier |-> jsonString(m.id),
     Signature |-> hexEncode(m.sig),
     Caveats |-> [i \in 1..Len(m.caveats) |-> CaveatMarshalDoc(m.caveats[i])]]

\* json.Unmarshal into a MacaroonDoc (each caveat through
\* Caveat.UnmarshalJSON), then UnmarshalDoc
UnmarshalJSON(doc) ==
    LET cavs == [i \in 1..Len(doc.Caveats) |-> CaveatUnmarshalDoc(doc.Caveats[i])]
        sig == hexDecode(doc.Signature)
    IN [ok |-> sig.ok /\ \A i \in 1..Len(cavs) : cavs[i].ok,
        m |-> Macaroon(jsonUnquote(doc.Location), jsonUnquote(doc.Identifier),
                       [i \in 1..Len(cavs) |-> cavs[i].cav], sig.bytes)]

\* ------------------------------------------------------------------------
\* What a holder of a document can do to it before it is decoded again.
\* ------------------------------------------------------------------------

\* a byte string with one byte of its first block changed
FlipByte(b) == <<Sym("flip", Empty, <<Head(b)>>)>> \o Tail(b)

ByteEdits == {"sig", "sigCase", "sigBad", "cid", "cidOther", "vid", "vidCase"}
Edits == ByteEdits \cup {"none", "swap", "dropLast"}

OtherCond(c) == IF c = Atom("a") THEN Atom("b") ELSE Atom("a")

\* whether edit e at caveat i applies to document doc
CanEdit(doc, e, i) ==
    CASE e \in {"sig", "sigCase", "sigBad"} -> i = 1 /\ Len(doc.Signature.bytes) > 0
      [] e = "none" -> i = 1
      [] e = "swap" -> i = 1 /\ Len(doc.Caveats) = 2 /\ doc.Caveats[1] # doc.Caveats[2]
      [] e = "dropLast" -> i = 1 /\ Len(doc.Caveats) > 0
      [] e = "cid" -> i \in 1..Len(doc.Caveats) /\ Len(doc.Caveats[i].CID) > 0
      [] e = "cidOther" -> i \in 1..Len(doc.Caveats) /\ doc.Caveats[i].CID \in Conds
      [] OTHER -> i \in 1..Len(doc.Caveats) /\ Len(doc.Caveats[i].VID.bytes) > 0

EditDoc(doc, e, i) ==
    CASE e = "sig" -> [doc EXCEPT !.Signature.bytes = FlipByte(@)]
      [] e = "sigCase" -> [doc EXCEPT !.Signature.form = "upper"]
      [] e = "sigBad" -> [doc EXCEPT !.Signature.form = "bad"]
      [] e = "none" -> doc
      [] e = "swap" -> [doc EXCEPT !.Caveats = <<@[2], @[1]>>]
      [] e = "dropLast" -> [doc EXCEPT !.Caveats = SubSeq(@, 1, Len(@) - 1)]
      [] e = "cid" -> [doc EXCEPT !.Caveats[i].CID = FlipByte(@)]
      [] e = "cidOther" -> [doc EXCEPT !.Caveats[i].CID = OtherCond(@)]
      [] e = "vid" -> [doc EXCEPT !.Caveats[i].VID.bytes = FlipByte(@)]
      [] OTHER -> [doc EXCEPT !.Caveats[i].VID.form = "upper"]

\* ------------------------------------------------------------------------
\* The discharger (package bakery): Discharge and its three collaborators.
\* ------------------------------------------------------------------------

\* d.Decoder.DecodeCaveatId(id): a decoder is the secret it holds
Decoders == {Atom("S"), Atom("S2")}

DecodeCaveatId(dec, id) ==
    LET c == DecryptThirdPartyCaveatId(dec, id)
    IN [ok |-> c.ok, rootKey |-> c.RootKey, condition |-> c.Caveat]

\* d.Checker.CheckThirdPartyCaveat(condition): the caveats to attach, or an
\* error
ThirdPartyCheckers == {"grant", "grantA", "refuse"}

CheckThirdPartyCaveat(tpchk, condition) ==
    CASE tpchk = "grant" -> [ok |-> TRUE, caveats |-> <<>>]
      [] tpchk = "grantA" -> [ok |-> TRUE, caveats |-> <<Atom("a")>>]
      [] OTHER -> [ok |-> FALSE, caveats |-> <<>>]

\* d.Factory.NewMacaroon(id, rootKey, caveats): a factory that mints with
\* New and adds each caveat, and one that returns an error
Factories == {"service", "failing"}

RECURSIVE addCaveats(_, _)
addCaveats(m, caveats) ==
    IF caveats = <<>>
    THEN m
    ELSE addCaveats(AddFirstPartyCaveat(m, Head(caveats)), Tail(caveats))

NewMacaroon(fac, id, rootKey, caveats) ==
    IF fac = "service"
    THEN [ok |-> TRUE, m |-> <<addCaveats(New(rootKey, id, Loc2), caveats)>>]
    ELSE [ok |-> FALSE, m |-> <<>>]

Call(fn, args) == [fn |-> fn, args |-> args]

\* if err != nil after DecodeCaveatId
decodeFails(d) == ~d.ok

\* mutant: the checker's error is not looked at
checkFailsNever(c) == FALSE

\* if err != nil after CheckThirdPartyCaveat
checkFails(c) == ~c.ok

\* Discharge(id): what it returns (m holds the macaroon, if any) and the
\* calls it made on its collaborators, in order
Discharge(id, dec, tpchk, fac) ==
    LET d == DecodeCaveatId(dec, id)
        calls1 == <<Call("DecodeCaveatId", <<id>>)>>
    IN IF decodeFails(d)
       THEN [m |-> <<>>, err |-> "decode", calls |-> calls1]
       ELSE LET c == CheckThirdPartyCaveat(tpchk, d.condition)
                calls2 == Append(calls1, Call("CheckThirdPartyCaveat", <<d.condition>>))
            IN IF checkFails(c)
               THEN [m |-> <<>>, err |-> "check", calls |-> calls2]
               ELSE LET n == NewMacaroon(fac, id, d.rootKey, c.caveats)
                    IN [m |-> n.m, err |-> IF n.ok THEN "nil" ELSE "mint",
                        calls |-> Append(calls2,
                                     Call("NewMacaroon", <<id, d.rootKey, c.caveats>>))]

\* ------------------------------------------------------------------------
\* The state: the macaroons allocated so far, how each came about, the
\* number of operations and of nonces drawn, and the outcome of the last
\* call that returns one.
\* ------------------------------------------------------------------------
VARIABLES heap, prov, ops, nonces, res

vars == <<heap, prov, ops, nonces, res>>

Live == 1..Len(heap)

Decoded == Cardinality({a \in Live : prov[a].kind = "decoded"})

\* How a macaroon came about, and where its caveats are kept: arr names the
\* backing array of its caveats slice and cap is the capacity of that array
\* when another macaroon's slice shares it (0 otherwise); prev is the
\* macaroon as it was before its last caveat was appended.
Built(rootKey, m) ==
    [kind |-> "built", key |-> rootKey, hist |-> <<>>, binds |-> <<>>,
     edit |-> "none", at |-> 0, orig |-> m,
     arr |-> Len(heap) + 1, cap |-> 0, cloneOf |-> 0, prev |-> <<>>]

\* append(m.caveats, cav) by heap[a]: the caveat is written into the
\* backing array when it has room, and is then seen by every macaroon
\* whose slice of that array covers the slot; otherwise the caveats move
\* to a new array.
InPlace(a) == Len(heap[a].caveats) < prov[a].cap

HeapAfterAppend(a, m2) ==
    [b \in DOMAIN heap |->
        IF b = a
        THEN m2
        ELSE IF /\ InPlace(a)
                /\ prov[b].arr = prov[a].arr
                /\ Len(heap[b].caveats) > Len(heap[a].caveats)
        THEN [heap[b] EXCEPT !.caveats[Len(m2.caveats)] = m2.caveats[Len(m2.caveats)]]
        ELSE heap[b]]

ProvAfterAppend(a, op) ==
    LET shared == \E b \in DOMAIN heap \ {a} : prov[b].arr = prov[a].arr
    IN [prov EXCEPT ![a].hist = Append(@, op),
                    ![a].prev = <<heap[a]>>,
                    ![a].arr = IF ~InPlace(a) /\ shared
                               THEN 10 * a + Len(heap[a].caveats)
                               ELSE @,
                    ![a].cap = IF InPlace(a) THEN @ ELSE 0]

\* the caveat ids of the third-party caveats of the macaroons allocated
ThirdPartyIds ==
    UNION {{heap[a].caveats[i].caveatId :
               i \in {j \in 1..Len(heap[a].caveats) : IsThirdParty(heap[a].caveats[j])}} :
           a \in Live}

\* the ids verify looks up in the discharges for the caveats of m
LookupIds(m) ==
    {m.caveats[i].caveatId :
        i \in {j \in 1..Len(m.caveats) : IsThirdParty(m.caveats[j])}}

\* the macaroons a discharge map can be asked for: those whose id is the id
\* of a third-party caveat of a macaroon, or of the macaroon it was decoded
\* from
Dischargers ==
    {d \in Live : \E b \in Live :
        heap[d].id \in LookupIds(heap[b]) \cup LookupIds(prov[b].orig)}

\* the discharge maps keyed by macaroon id that hold, for each id verify
\* can look up, one of the macaroons other than a with that id
DischargeSets(a) ==
    LET others == Dischargers \ {a}
    IN {as \in SUBSET others :
           /\ \A x, y \in as : heap[x].id = heap[y].id => x = y
           /\ \A x \in others : \E y \in as : heap[y].id = heap[x].id}

DischargeMap(as) ==
    [id \in {heap[a].id : a \in as} |-> CHOOSE a \in as : heap[a].id = id]

\* the text holds a byte that is not valid UTF-8, or the mark json.Marshal
\* leaves for one
Coerced(str) == \E k \in 1..Len(str) : str[k] \in {InvalidByte, Replacement}

\* the number of operations the run may hold: MaxOpsInvalid once an id or a
\* condition that is not valid UTF-8 has been used
Budget ==
    IF \/ heap # <<>> /\ Coerced(heap[1].id)
       \/ \E id \in ThirdPartyIds, secret \in Secrets :
              Coerced(DecryptThirdPartyCaveatId(secret, id).Caveat)
    THEN MaxOpsInvalid
    ELSE MaxOps

Init ==
    /\ heap = <<>>
    /\ prov = <<>>
    /\ ops = 0
    /\ nonces = 0
    /\ res = <<>>

\* Macaroons are minted and changed before the document of one of them is
\* decoded at the verifier.
CanChange ==
    /\ res = <<>>
    /\ Decoded = 0
    /\ ops < Budget
    /\ ops' = ops + 1
    /\ res' = <<>>

CanAllocate == Len(heap) < Cardinality(Addrs)

\* the service mints its macaroon: m := New(rootKey, id, loc)
DoNew(rootKey, id) ==
    /\ heap = <<>>
    /\ CanChange
    /\ CanAllocate
    /\ heap' = Append(heap, New(rootKey, id, Loc))
    /\ prov' = Append(prov, Built(rootKey, New(rootKey, id, Loc)))
    /\ UNCHANGED nonces

\* the third party: DecryptThirdPartyCaveatId(secret, id), then
\* New(RootKey, id, loc)
DoNewDischarge(secret, id) ==
    LET c == DecryptThirdPartyCaveatId(secret, id) IN
    /\ CanChange
    /\ CanAllocate
    /\ c.ok
    /\ heap' = Append(heap, New(c.RootKey, id, Loc2))
    /\ prov' = Append(prov, Built(c.RootKey, New(c.RootKey, id, Loc2)))
    /\ UNCHANGED nonces

\* the third party: d.Discharge(id); the macaroon returned, if any, is
\* kept
DoDischarge(id, dec, tpchk, fac) ==
    LET r == Discharge(id, dec, tpchk, fac)
        d == DecodeCaveatId(dec, id)
        c == CheckThirdPartyCaveat(tpchk, d.condition)
    IN /\ res = <<>>
       /\ Decoded = 0
       /\ ops < Budget
       /\ ops' = ops + 1
       /\ CanAllocate
       /\ res' = <<[op |-> "Discharge", id |-> id, dec |-> dec, tpchk |-> tpchk,
                    fac |-> fac, r |-> r]>>
       /\ IF r.m # <<>>
          THEN /\ heap' = Append(heap, r.m[1])
               /\ prov' = Append(prov,
                      [Built(d.rootKey, New(d.rootKey, id, Loc2)) EXCEPT
                          !.hist = [k \in 1..Len(c.caveats) |-> "AddFirstPartyCaveat"]])
          ELSE UNCHANGED <<heap, prov>>
       /\ UNCHANGED nonces

\* c := heap[a].Clone(), once in a run; the capacity of the array of
\* heap[a]'s caveats, which append chose, may or may not exceed their
\* number
DoClone(a, spare) ==
    LET arr == cloneArray(prov[a].arr, Len(heap) + 1)
        cap == IF arr = prov[a].arr
               THEN Len(heap[a].caveats) + (IF spare THEN 1 ELSE 0)
               ELSE 0
    IN /\ CanChange
       /\ CanAllocate
       /\ \A b \in Live : prov[b].cloneOf = 0
       /\ spare => Len(heap[a].caveats) > 0
       /\ heap' = Append(heap, Clone(heap[a]))
       /\ prov' = Append([prov EXCEPT ![a].cap = IF arr = prov[a].arr THEN cap ELSE @],
                         [prov[a] EXCEPT !.arr = arr, !.cap = cap, !.cloneOf = a])
       /\ UNCHANGED nonces

DoAddFirstPartyCaveat(a, caveatId) ==
    /\ CanChange
    /\ heap' = HeapAfterAppend(a, AddFirstPartyCaveat(heap[a], caveatId))
    /\ prov' = ProvAfterAppend(a, "AddFirstPartyCaveat")
    /\ UNCHANGED nonces

\* newNonce() draws a nonce that was not drawn before
DoAddThirdPartyCaveat(a, secret, caveat) ==
    /\ res = <<>>
    /\ Decoded = 0
    /\ ops < (IF Coerced(caveat) THEN MaxOpsInvalid ELSE Budget)
    /\ ops' = ops + 1
    /\ heap' = HeapAfterAppend(a,
                   AddThirdPartyCaveat(heap[a], secret, Nonce(nonces + 1), caveat, Loc2))
    /\ nonces' = nonces + 1
    /\ prov' = ProvAfterAppend(a, "AddThirdPartyCaveat")
    /\ res' = <<[op |-> "AddThirdPartyCaveat", s |-> a,
                 thirdPartySecret |-> secret, caveat |-> caveat,
                 id |-> thirdPartyCaveatId(secret, Nonce(nonces + 1), caveat)]>>

\* heap[a].Bind(heap[b].Signature()); prov records the signatures whose
\* binding changed the signature of heap[a]
DoBind(a, b) ==
    /\ CanChange
    /\ heap' = [heap EXCEPT ![a] = Bind(@, Signature(heap[b]))]
    /\ prov' = IF Signature(heap[b]) = Signature(heap[a])
               THEN [prov EXCEPT ![a].hist = Append(@, "BindSame")]
               ELSE [prov EXCEPT ![a].hist = Append(@, "Bind"),
                                 ![a].binds = Append(@, Signature(heap[b]))]
    /\ UNCHANGED nonces

\* The document of heap[a] travels, is edited on the way (edit e at caveat
\* i) and is decoded into a new macaroon, which is dropped when decoding
\* fails.
DoUnmarshal(a, e, i) ==
    LET doc == MarshalJSON(heap[a])
        r == UnmarshalJSON(EditDoc(doc, e, i))
    IN /\ res = <<>>
       /\ ops < Budget
       /\ ops' = ops + 1
       /\ Decoded = 0
       /\ CanAllocate
       /\ CanEdit(doc, e, i)
       /\ UNCHANGED nonces
       /\ IF r.ok
          THEN /\ heap' = Append(heap, r.m)
               /\ prov' = Append(prov, [kind |-> "decoded", key |-> prov[a].key,
                                        hist |-> prov[a].hist,
                                        binds |-> prov[a].binds,
                                        edit |-> e, at |-> i, orig |-> heap[a],
                                        arr |-> Len(heap) + 1, cap |-> 0,
                                        cloneOf |-> 0, prev |-> prov[a].prev])
               /\ res' = <<>>
          ELSE /\ UNCHANGED <<heap, prov>>
               /\ res' = <<[op |-> "Unmarshal", s |-> a, err |-> "hex"]>>

\* A third party hands out the document of the discharge heap[a] it minted
\* with one more third-party caveat: the caveat id is the discharge's own
\* id and the verification id holds the discharge's own root key, sealed
\* under its signature.
LoopDoc(m, rootKey) ==
    MarshalJSON(addCaveat(m, m.id, encrypt(m.sig, rootKey), m.location))

DoUnmarshalLoop(a) ==
    LET r == UnmarshalJSON(LoopDoc(heap[a], prov[a].key))
    IN /\ res = <<>>
       /\ ops < Budget
       /\ ops' = ops + 1
       /\ Decoded = 0
       /\ CanAllocate
       /\ prov[a].key \notin RootKeys
       /\ r.ok
       /\ heap' = Append(heap, r.m)
       /\ prov' = Append(prov, [prov[a] EXCEPT !.kind = "decoded", !.edit = "loop",
                                               !.at = Len(r.m.caveats),
                                               !.orig = heap[a],
                                               !.arr = Len(heap) + 1, !.cap = 0,
                                               !.cloneOf = 0])
       /\ res' = <<>>
       /\ UNCHANGED nonces

\* the macaroons after the writes a call of Verify made into their bytes
RECURSIVE HeapAfterWrites(_, _)
HeapAfterWrites(h, trace) ==
    IF trace = <<>>
    THEN h
    ELSE HeapAfterWrites(
             IF Head(trace).ev = "write"
             THEN [h EXCEPT ![Head(trace).slot].sig = Head(trace).val]
             ELSE h,
             Tail(trace))

\* heap[a].Verify(rootKey, check, discharges), called by the service on a
\* macaroon that descends from one it minted; once a document has been
\* decoded, the call is on the decoded macaroon or has it among the
\* discharges; the checkers differ only where there is a first-party
\* caveat to check
DoVerify(a, rootKey, chk, as) ==
    LET r == Verify(a, rootKey, chk, DischargeMap(as), heap)
    IN /\ res = <<>>
       /\ prov[a].key \in RootKeys
       /\ \/ Decoded = 0
          \/ prov[a].kind = "decoded"
          \/ \E d \in as : prov[d].kind = "decoded"
       /\ \/ chk = "acceptAll"
          \/ \E b \in as \cup {a} : \E i \in 1..Len(heap[b].caveats) :
                 ~IsThirdParty(heap[b].caveats[i])
       /\ res' = <<[op |-> "Verify", s |-> a, rootKey |-> rootKey, chk |-> chk,
                    discharges |-> DischargeMap(as), r |-> r]>>
       /\ heap' = HeapAfterWrites(heap, r.trace)
       /\ UNCHANGED <<prov, ops, nonces>>

\* the caller takes the outcome of the call and goes on
Return ==
    /\ res # <<>>
    /\ res' = <<>>
    /\ UNCHANGED <<heap, prov, ops, nonces>>

Next ==
    \/ \E id \in Ids : DoNew(MintKey, id)
    \/ \E secret \in Secrets, id \in ThirdPartyIds : DoNewDischarge(secret, id)
    \/ \E id \in ThirdPartyIds \cup Ids, dec \in Decoders :
           \E tpchk \in ThirdPartyCheckers, fac \in Factories :
               DoDischarge(id, dec, tpchk, fac)
    \/ \E a \in Live, spare \in BOOLEAN : DoClone(a, spare)
    \/ \E a \in Live, c \in Conds : DoAddFirstPartyCaveat(a, c)
    \/ \E a \in Live, secret \in Secrets, c \in TPConds :
           DoAddThirdPartyCaveat(a, secret, c)
    \/ \E a \in Live, b \in Live : DoBind(a, b)
    \/ \E a \in Live, e \in Edits :
           \E i \in 1..(Len(heap[a].caveats) + 1) : DoUnmarshal(a, e, i)
    \/ \E a \in Live : DoUnmarshalLoop(a)
    \/ \E a \in Live : \E as \in DischargeSets(a) :
           \E rootKey \in RootKeys, chk \in Checkers : DoVerify(a, rootKey, chk, as)
    \/ Return

Spec == Init /\ [][Next]_vars

\* ------------------------------------------------------------------------
\* Properties.
\* ------------------------------------------------------------------------
Called == res # <<>> /\ res[1].op = "Verify"
V == res[1]
Events == {V.r.trace[k] : k \in 1..Len(V.r.trace)}

\* the macaroons a verify call was made on
Entered == {e.slot : e \in {x \in Events : x.ev = "enter"}}

CaveatIdx(a) == 1..Len(heap[a].caveats)
FirstParty(cav) == cav.verificationId = Empty
AllFirstParty(a) == \A i \in CaveatIdx(a) : FirstParty(heap[a].caveats[i])
AllAccepted(a, chk) ==
    \A i \in CaveatIdx(a) :
        FirstParty(heap[a].caveats[i]) => check(chk, heap[a].caveats[i].caveatId).ok

\* caveat i of macaroon a was passed by the call
Passed(a, i) ==
    \E e \in Events : e.slot = a /\ e.idx = i /\ e.ok /\ e.ev \in {"check", "discharge"}

\* the keyed-hash chain over (rootKey, id, the first n caveats of m)
RECURSIVE ChainOf(_, _, _)
ChainOf(rootKey, m, n) ==
    IF n = 0
    THEN <<Sym("hmac", rootKey, m.id)>>
    ELSE <<Sym("hmac", ChainOf(rootKey, m, n - 1),
               m.caveats[n].verificationId \o m.caveats[n].caveatId)>>

FullChain(rootKey, m) == ChainOf(rootKey, m, Len(m.caveats))

\* a macaroon made by New and Add*Caveat only
Minted(a) == prov[a].kind = "built" /\ prov[a].binds = <<>>

\* C1: Verify returns true only if check returned true for every
\* first-party caveat of the verified macaroon and of every discharge
\* macaroon reached, and every third-party caveat reached had a discharge
\* in the map whose own verification returned true; for every macaroon,
\* decoded ones included.
C1_TrueOnlyIfAllCaveatsHold ==
    Called /\ V.r.ok =>
        /\ V.s \in Entered
        /\ \A a \in Entered : \A i \in CaveatIdx(a) :
              LET cav == heap[a].caveats[i] IN
              IF FirstParty(cav)
              THEN /\ check(V.chk, cav.caveatId).ok
                   /\ \E e \in Events :
                         e.ev = "check" /\ e.slot = a /\ e.idx = i /\ e.ok
              ELSE /\ cav.caveatId \in DOMAIN V.discharges
                   /\ V.discharges[cav.caveatId] \in Entered
                   /\ \E e \in Events :
                         e.ev = "discharge" /\ e.slot = a /\ e.idx = i /\ e.ok

C1_Witness ==
    /\ Called /\ V.r.ok
    /\ Cardinality(Entered) >= 2
    /\ \E a \in Entered \ {V.s} : \E i \in CaveatIdx(a) : FirstParty(heap[a].caveats[i])

\* C2: Verify returns true only if bindForRequest(the macaroon's signature,
\* the chain recomputed from rootKey, id and the caveats in order) equals
\* the stored signature; when they differ Verify returns false, and with
\* the signature-mismatch error when every caveat was passed.
C2_TrueOnlyIfSignatureMatches ==
    Called /\ V.r.returns =>
        LET m == heap[V.s]
            bound == bindForRequest(m.sig, FullChain(V.rootKey, m))
        IN /\ V.r.ok => bound = m.sig
           /\ bound # m.sig => ~V.r.ok
           /\ (bound # m.sig /\ \A i \in CaveatIdx(V.s) : Passed(V.s, i))
                 => V.r.err = "mismatch"

C2_Witness ==
    /\ Called /\ ~V.r.ok /\ V.r.err = "mismatch"
    /\ Len(heap[V.s].caveats) >= 1
    /\ \A i \in CaveatIdx(V.s) : Passed(V.s, i)
    /\ bindForRequest(heap[V.s].sig, FullChain(V.rootKey, heap[V.s])) # heap[V.s].sig

\* the case of C3: macaroon a is minted with the key given to Verify, has
\* one third-party caveat, at i, and accepted first-party caveats; its
\* discharge d is minted with the key and id the caveat id holds, carries
\* accepted first-party caveats only and was then bound, once, to the
\* signature of a.
C3_Case(a, i, d) ==
    /\ Minted(a) /\ prov[a].key = V.rootKey
    /\ i \in CaveatIdx(a)
    /\ \A j \in CaveatIdx(a) : FirstParty(heap[a].caveats[j]) <=> j # i
    /\ AllAccepted(a, V.chk)
    /\ heap[a].caveats[i].caveatId \in DOMAIN V.discharges
    /\ d = V.discharges[heap[a].caveats[i].caveatId]
    /\ prov[d].kind = "built"
    /\ heap[d].id = heap[a].caveats[i].caveatId
    /\ \E secret \in Secrets :
          prov[d].key = DecryptThirdPartyCaveatId(secret, heap[d].id).RootKey
    /\ AllFirstParty(d) /\ AllAccepted(d, V.chk)
    /\ prov[d].hist # <<>> /\ prov[d].hist[Len(prov[d].hist)] = "Bind"
    /\ prov[d].binds = <<heap[a].sig>>

\* C3: a minted root with a third-party caveat verifies, (true, nil), when
\* the discharge map holds its discharge, minted with the recovered key
\* and the returned caveat id and bound to the root's signature.
C3_DischargedRootVerifies ==
    Called =>
        \A i \in CaveatIdx(V.s), d \in Live :
            C3_Case(V.s, i, d) => V.r.ok /\ V.r.err = "nil"

C3_Witness ==
    /\ Called /\ V.r.ok
    /\ \E i \in CaveatIdx(V.s), d \in Live :
          C3_Case(V.s, i, d) /\ Len(heap[d].caveats) >= 1

\* C4: Verify accepts a discharge only if its stored signature is
\* bindForRequest(the root's signature, the discharge's own chain
\* signature); a discharge never bound, or bound to another signature than
\* the root's, makes Verify fail.
C4_DischargeMustBeBoundToRoot ==
    Called =>
        /\ V.r.ok =>
              \A d \in Entered \ {V.s} :
                  heap[d].sig =
                      bindForRequest(heap[V.s].sig, FullChain(prov[d].key, heap[d]))
        /\ \A i \in CaveatIdx(V.s) :
              LET cav == heap[V.s].caveats[i] IN
              (/\ ~FirstParty(cav)
               /\ cav.caveatId \in DOMAIN V.discharges
               /\ LET binds == prov[V.discharges[cav.caveatId]].binds
                  IN binds = <<>> \/ binds[Len(binds)] # heap[V.s].sig)
                  => ~V.r.ok

C4_Witness ==
    /\ Called /\ ~V.r.ok /\ V.r.err = "mismatch"
    /\ \E i \in CaveatIdx(V.s) :
          LET cav == heap[V.s].caveats[i] IN
          /\ ~FirstParty(cav)
          /\ cav.caveatId \in DOMAIN V.discharges
          /\ Len(prov[V.discharges[cav.caveatId]].binds) = 1
          /\ prov[V.discharges[cav.caveatId]].binds # <<heap[V.s].sig>>
          /\ \E e \in Events : e.ev = "discharge" /\ e.slot = V.s /\ e.idx = i /\ ~e.ok

\* C5: a macaroon built by New and AddFirstPartyCaveat only verifies,
\* (true, nil), under the same key, a checker that always returns true and
\* an empty discharge map.
C5_FirstPartyOnlyVerifies ==
    (/\ Called
     /\ Minted(V.s) /\ AllFirstParty(V.s)
     /\ V.rootKey = prov[V.s].key
     /\ V.chk = "acceptAll"
     /\ DOMAIN V.discharges = {})
        => V.r.ok /\ V.r.err = "nil"

C5_Witness ==
    /\ Called /\ V.r.ok /\ V.r.err = "nil"
    /\ Minted(V.s) /\ AllFirstParty(V.s)
    /\ V.rootKey = prov[V.s].key
    /\ V.chk = "acceptAll"
    /\ DOMAIN V.discharges = {}
    /\ Len(heap[V.s].caveats) >= 2

\* what Verify returned, or would have, on the macaroon the verified one
\* was decoded from
OrigVerify ==
    Verify(V.s, V.rootKey, V.chk, V.discharges, [heap EXCEPT ![V.s] = prov[V.s].orig])

DecodedWith(edits) == prov[V.s].kind = "decoded" /\ prov[V.s].edit \in edits

\* the macaroon decoded from the document of m when nothing is changed
PlainDecode(m) == UnmarshalJSON(MarshalJSON(m)).m

\* C6 as stated: for a macaroon that verifies, changing one byte of its
\* serialized signature or of a caveat's cid or vid makes Verify of the
\* decoded macaroon fail with the signature-mismatch error.
C6_ByteChangeGivesMismatch ==
    (Called /\ DecodedWith(ByteEdits) /\ OrigVerify.ok)
        => ~V.r.ok /\ V.r.err = "mismatch"

\* C6 as amended: for a macaroon that verifies, a byte change of the
\* serialized signature, cid or vid that changes the decoded value makes
\* Verify of the decoded macaroon return false; a change of the case of a
\* hex digit decodes to the macaroon the unchanged document decodes to.
\* When the unchanged document decodes to the macaroon encoded, the error
\* is the signature mismatch when the signature was changed and the
\* decryption error when a vid was, and a change of case leaves Verify
\* true.
C6_ChangedValueNeverVerifies ==
    (Called /\ OrigVerify.ok) =>
        /\ DecodedWith({"sig", "cid", "cidOther", "vid"}) => ~V.r.ok
        /\ DecodedWith({"sigCase", "vidCase"}) =>
              heap[V.s] = PlainDecode(prov[V.s].orig)
        /\ PlainDecode(prov[V.s].orig) = prov[V.s].orig =>
              /\ DecodedWith({"sig"}) => V.r.err = "mismatch"
              /\ DecodedWith({"vid"}) => V.r.err = "decrypt"
              /\ DecodedWith({"sigCase", "vidCase"}) => V.r.ok

C6_Witness ==
    /\ Called /\ OrigVerify.ok
    /\ DecodedWith({"cid", "cidOther"})
    /\ ~V.r.ok /\ V.r.err # "mismatch"

\* the macaroon New(key, id, loc) with first-party caveats x then y
TwoCaveats(a, x, y) ==
    AddFirstPartyCaveat(AddFirstPartyCaveat(prov[a].orig, x), y)

\* C7: for the same key and id, two first-party caveats with different
\* conditions give a different signature when added in the other order,
\* and the macaroon with the two caveats swapped under the original
\* signature fails Verify.
C7_OrderMatters ==
    /\ \A a \in Live :
          (/\ Minted(a) /\ AllFirstParty(a) /\ Len(heap[a].caveats) = 2
           /\ heap[a].caveats[1].caveatId # heap[a].caveats[2].caveatId)
              => /\ heap[a] = TwoCaveats(a, heap[a].caveats[1].caveatId,
                                            heap[a].caveats[2].caveatId)
                 /\ heap[a].sig # TwoCaveats(a, heap[a].caveats[2].caveatId,
                                                heap[a].caveats[1].caveatId).sig
    /\ (/\ Called /\ DecodedWith({"swap"})
        /\ prov[V.s].binds = <<>> /\ AllFirstParty(V.s))
          => ~V.r.ok

C7_Witness ==
    /\ Called /\ DecodedWith({"swap"})
    /\ prov[V.s].binds = <<>> /\ AllFirstParty(V.s)
    /\ V.chk = "acceptAll" /\ V.rootKey = prov[V.s].key
    /\ OrigVerify.ok
    /\ ~V.r.ok /\ V.r.err = "mismatch"

\* the caveat id an event of the trace is about
EventCaveatId(e) == heap[e.slot].caveats[e.idx].caveatId

\* C8: whenever check reports an error for a caveat, Verify aborts at that
\* caveat (nothing is checked, decrypted or looked up after it) and returns
\* that error.
C8_CheckErrorAborts ==
    Called =>
        \A k \in 1..Len(V.r.trace) :
            LET e == V.r.trace[k] IN
            (e.ev = "check" /\ check(V.chk, EventCaveatId(e)).err # "nil")
                => /\ ~V.r.ok /\ V.r.err = "check"
                   /\ \A j \in (k + 1)..Len(V.r.trace) :
                         V.r.trace[j].ev = "discharge" /\ ~V.r.trace[j].ok

\* caveat i of macaroon a is a third-party caveat with no discharge in the
\* map given to Verify
Undischarged(a, i) ==
    /\ ~FirstParty(heap[a].caveats[i])
    /\ heap[a].caveats[i].caveatId \notin DOMAIN V.discharges

\* C9 as stated: if a macaroon being verified has a third-party caveat
\* whose id is not a key of the discharge map, Verify returns false with
\* the discharge-not-found error, whatever the checker and the other
\* caveats say.
C9_MissingDischargeGivesNotFound ==
    (Called /\ \E a \in Entered : \E i \in CaveatIdx(a) : Undischarged(a, i))
        => ~V.r.ok /\ V.r.err = "nodischarge"

\* C9 as amended: Verify then returns false; the error is the
\* discharge-not-found error when the caveat is reached, that is when
\* every caveat before it in its macaroon was passed and its verification
\* id decrypted.
C9_MissingDischargeFails ==
    Called =>
        \A a \in Entered : \A i \in CaveatIdx(a) :
            Undischarged(a, i) =>
                /\ ~V.r.ok
                /\ (/\ \A j \in 1..(i - 1) : Passed(a, j)
                    /\ \E e \in Events :
                          e.ev = "decrypt" /\ e.slot = a /\ e.idx = i /\ e.ok)
                      => V.r.err = "nodischarge"

C9_Witness ==
    /\ Called /\ ~V.r.ok /\ V.r.err = "nodischarge"
    /\ \E a \in Entered \ {V.s} : \E i \in CaveatIdx(a) : Undischarged(a, i)

\* C10: a macaroon minted with key K whose caveats are all first-party and
\* all accepted by the checker fails Verify under any other key, with the
\* signature-mismatch error.
C10_WrongKeyGivesMismatch ==
    (/\ Called
     /\ Minted(V.s) /\ AllFirstParty(V.s) /\ AllAccepted(V.s, V.chk)
     /\ V.rootKey # prov[V.s].key)
        => ~V.r.ok /\ V.r.err = "mismatch"

C10_Witness ==
    /\ Called
    /\ Minted(V.s) /\ AllFirstParty(V.s) /\ AllAccepted(V.s, V.chk)
    /\ Len(heap[V.s].caveats) >= 1
    /\ V.rootKey # prov[V.s].key
    /\ ~V.r.ok /\ V.r.err = "mismatch"

\* C11: Verify returns a result after finitely many steps for every
\* macaroon and every finite discharge map, also when a discharge carries a
\* third-party caveat whose caveat id maps back to that discharge; it
\* never recurses without bound.
C11_VerifyReturns == Called => V.r.returns

Discharged == res # <<>> /\ res[1].op = "Discharge"
D == res[1]
CallNames == [k \in 1..Len(D.r.calls) |-> D.r.calls[k].fn]

\* C12: Discharge(id) calls the decoder, then the checker, then the
\* minter; the minter is called at most once, only after decoder and
\* checker succeeded, with the id as given, the decoded root key and the
\* caveats the checker returned; when the decoder or the checker fails,
\* Discharge returns an error and no macaroon, the minter is not called
\* and, on a decoder failure, neither is the checker.
C12_DischargeCallsInOrder ==
    Discharged =>
        LET d == DecodeCaveatId(D.dec, D.id)
            c == CheckThirdPartyCaveat(D.tpchk, d.condition)
        IN /\ ~d.ok =>
                 /\ CallNames = <<"DecodeCaveatId">>
                 /\ D.r.m = <<>> /\ D.r.err # "nil"
           /\ (d.ok /\ ~c.ok) =>
                 /\ CallNames = <<"DecodeCaveatId", "CheckThirdPartyCaveat">>
                 /\ D.r.m = <<>> /\ D.r.err # "nil"
           /\ (d.ok /\ c.ok) =>
                 /\ CallNames = <<"DecodeCaveatId", "CheckThirdPartyCaveat", "NewMacaroon">>
                 /\ D.r.calls[3].args = <<D.id, d.rootKey, c.caveats>>
           /\ D.r.calls[1].args = <<D.id>>
           /\ Len(D.r.calls) >= 2 => D.r.calls[2].args = <<d.condition>>

C12_Witness ==
    /\ Discharged
    /\ D.r.m # <<>> /\ D.r.err = "nil"
    /\ Len(D.r.m[1].caveats) = 1
    /\ D.r.m[1].id = D.id
    /\ Len(D.r.calls) = 3

\* C13: for every macaroon m, decoding the encoding of m (MarshalJSON, then
\* UnmarshalJSON) gives a macaroon with the same location, identifier,
\* signature and caveat sequence, on which Verify gives the result it
\* gives on m.
C13_RoundTrip ==
    /\ \A a \in Live :
          (prov[a].kind = "decoded" /\ prov[a].edit = "none")
              => heap[a] = prov[a].orig
    /\ (Called /\ DecodedWith({"none"})) =>
          V.r.ok = OrigVerify.ok /\ V.r.err = OrigVerify.err

\* C14: after c = m.Clone(), AddFirstPartyCaveat, AddThirdPartyCaveat and
\* Bind on c leave m unchanged, and on m leave c unchanged: a step changes
\* no macaroon but the one the operation was called on.
C14_CloneIndependent ==
    [][\A b \in DOMAIN heap :
          heap'[b] # heap[b] => prov'[b].hist # prov[b].hist]_vars

C14_Witness ==
    \E c \in Live :
        /\ prov[c].cloneOf # 0
        /\ Len(heap[c].caveats) >= 2
        /\ Len(heap[prov[c].cloneOf].caveats) >= 2
        /\ heap[c].caveats[1] = heap[prov[c].cloneOf].caveats[1]
        /\ heap[c].caveats[2] # heap[prov[c].cloneOf].caveats[2]

LastOp(a) == IF prov[a].hist = <<>> THEN "New" ELSE prov[a].hist[Len(prov[a].hist)]

\* C16 as stated: after New and after every mutating operation, the
\* signature of a macaroon is the keyed-hash chain over its root key, its
\* id and its caveats in order.
C16_SignatureIsChain ==
    \A a \in Live :
        prov[a].kind = "built" => heap[a].sig = FullChain(prov[a].key, heap[a])

\* C16 as amended: that holds after New and every Add*Caveat as long as no
\* Bind has changed the signature; after a Bind(rootSig) that changed it,
\* the signature is bindForRequest(rootSig, the chain) and not the chain.
C16_SignatureIsChainUntilBound ==
    \A a \in Live :
        prov[a].kind = "built" =>
            /\ prov[a].binds = <<>> =>
                  heap[a].sig = FullChain(prov[a].key, heap[a])
            /\ (LastOp(a) = "Bind" /\ Len(prov[a].binds) = 1) =>
                  /\ heap[a].sig = bindForRequest(prov[a].binds[1],
                                                  FullChain(prov[a].key, heap[a]))
                  /\ heap[a].sig # FullChain(prov[a].key, heap[a])

C16_Witness ==
    \E a, b \in Live :
        /\ Minted(a) /\ Len(heap[a].caveats) >= 2
        /\ \E i \in CaveatIdx(a) : ~FirstParty(heap[a].caveats[i])
        /\ prov[b].kind = "built" /\ LastOp(b) = "Bind"
        /\ Len(prov[b].binds) = 1 /\ Len(heap[b].caveats) >= 1

\* a call of AddThirdPartyCaveat has just returned
Added == res # <<>> /\ res[1].op = "AddThirdPartyCaveat"
A == res[1]
NewCaveat == heap[A.s].caveats[Len(heap[A.s].caveats)]

\* C17: the id AddThirdPartyCaveat(S, c, loc) returns decodes under
\* DecryptThirdPartyCaveatId(S, id) to the condition c and to the root key
\* that decrypting the new caveat's verification id under the signature
\* the macaroon had before the caveat was added gives, and the id is the
\* caveat id of the appended caveat.
C17_ReturnedIdDecodes ==
    Added =>
        LET c == DecryptThirdPartyCaveatId(A.thirdPartySecret, A.id)
            k == decrypt(prov[A.s].prev[1].sig, NewCaveat.verificationId)
        IN /\ c.ok /\ c.Caveat = A.caveat
           /\ k.ok /\ c.RootKey = k.plain
           /\ A.id = NewCaveat.caveatId

\* C18: Bind(rootSig) with rootSig equal to the macaroon's signature
\* (bindForRequest(s, s) = s) leaves the signature and the rest of the
\* macaroon as they were.
C18_BindSameSignatureKeeps ==
    [][\A a \in DOMAIN heap :
          prov'[a].hist = Append(prov[a].hist, "BindSame")
              => /\ heap'[a] = heap[a]
                 /\ bindForRequest(heap[a].sig, heap[a].sig) = heap'[a].sig]_vars

C18_Witness ==
    \E a \in Live : \E b \in Live \ {a} :
        /\ LastOp(a) = "BindSame"
        /\ heap[b].sig = heap[a].sig
        /\ Len(heap[a].caveats) > 0

\* the steps of the loop of the call on the macaroon Verify was called on:
\* a first-party caveat is checked, a third-party one decrypted first
TopStep(e) == e.slot = V.s /\ e.ev \in {"check", "decrypt"}
TopSteps == SelectSeq(V.r.trace, TopStep)

\* a caveat failed at event k of the trace
FailsAt(k) ==
    /\ V.r.trace[k].ev \in {"check", "decrypt", "lookup", "discharge"}
    /\ ~V.r.trace[k].ok

\* C19: Verify takes the caveats in list order and stops at the first one
\* that fails (check not satisfied, discharge missing, decryption failed,
\* discharge not verified): after it check is not called and no discharge
\* is looked up, and Verify returns false.
C19_StopsAtFirstFailure ==
    (Called /\ V.r.returns) =>
        /\ \A j \in 1..Len(TopSteps) : TopSteps[j].idx = j
        /\ V.r.ok => Len(TopSteps) = Len(heap[V.s].caveats)
        /\ \A k \in 1..Len(V.r.trace) :
              FailsAt(k) =>
                  /\ ~V.r.ok
                  /\ \A l \in (k + 1)..Len(V.r.trace) :
                        /\ V.r.trace[l].ev = "discharge"
                        /\ ~V.r.trace[l].ok

C19_Witness ==
    /\ Called /\ V.r.returns /\ ~V.r.ok
    /\ \E k \in 1..Len(V.r.trace) :
          /\ V.r.trace[k].ev = "discharge" /\ ~V.r.trace[k].ok
          /\ V.r.trace[k].slot = V.s
          /\ V.r.trace[k].idx < Len(heap[V.s].caveats)
          /\ V.r.trace[k].idx = Len(TopSteps)

\* the macaroon Verify was called on was built, and the last operation on
\* it appended a caveat
Appended ==
    /\ Called /\ prov[V.s].kind = "built"
    /\ LastOp(V.s) \in {"AddFirstPartyCaveat", "AddThirdPartyCaveat"}

\* the macaroon as it was before that caveat was appended
WithoutLast == prov[V.s].prev[1]

\* what Verify returns on it under the same root key, checker and
\* discharges
PrevVerify ==
    Verify(V.s, V.rootKey, V.chk, V.discharges, [heap EXCEPT ![V.s] = WithoutLast])

\* C20 as stated: if a macaroon with one more caveat appended by
\* AddFirstPartyCaveat or AddThirdPartyCaveat verifies, the macaroon
\* without that caveat verifies under the same root key, checker and
\* discharge map.
C20_AppendNeverWidens ==
    (Appended /\ V.r.ok) => PrevVerify.ok

\* C20 as amended: if the macaroon with the caveat appended verifies, the
\* macaroon without it verifies under the same root key, checker and
\* discharge map when it has no third-party caveat; when it has one, its
\* discharges are bound to the signature of the macaroon with the caveat,
\* and Verify of the macaroon without it fails with the signature
\* mismatch, every caveat of it having passed.
C20_AppendNeverWidensUnbound ==
    (Appended /\ V.r.ok) =>
        /\ (\A i \in 1..Len(WithoutLast.caveats) : FirstParty(WithoutLast.caveats[i]))
              => PrevVerify.ok
        /\ (\E i \in 1..Len(WithoutLast.caveats) : ~FirstParty(WithoutLast.caveats[i]))
              => ~PrevVerify.ok /\ PrevVerify.err = "mismatch"
        /\ \A i \in 1..Len(WithoutLast.caveats) :
              FirstParty(WithoutLast.caveats[i])
                  => check(V.chk, WithoutLast.caveats[i].caveatId).ok

C20_Witness ==
    /\ Appended /\ V.r.ok
    /\ \E i \in 1..Len(WithoutLast.caveats) : ~FirstParty(WithoutLast.caveats[i])
    /\ ~PrevVerify.ok /\ PrevVerify.err = "mismatch"

====
